---- MODULE Spec2Model ----
(***************************************************************************)
(* A model of simplegetapi's list endpoint: do_api_search (views.py) with  *)
(* normalize_field_value and get_model_filterable_fields, and of           *)
(* serialize_object (serializers.py).  Spec follows one request through    *)
(* do_api_search; NormSpec, BulkSpec and SerSpec apply normalize_field_-   *)
(* value, the bulk load of views.py:270-284 and serialize_object to inputs *)
(* drawn from bounded sets.                                                *)
(*                                                                         *)
(* Representation of text.  A name such as "city__name__gt" is the         *)
(* sequence of its "__"-separated segments, <<"city", "name", "gt">>.  A   *)
(* raw filter value such as "1|2" is the sequence of its "|"-separated     *)
(* pieces, <<"1", "2">>.  A raw sort value "-city" is <<"-", "city">>: its *)
(* leading dashes one by one, then the segments of the name.  A raw offset *)
(* or limit "100" is the sequence of its characters, <<"1", "0", "0">>.    *)
(***************************************************************************)
EXTENDS Integers, Sequences, FiniteSets, TLC

VARIABLES
    model,            \* the ORM model the request is rooted on
    qs_type,          \* "QuerySet" or "SearchQuerySet"
    request_options,  \* the query string: a sequence of [arg, vals], keys distinct
    pc,               \* position in do_api_search
    idx,              \* index of the next query argument of the loop at views.py:140
    qs,               \* the collection as built so far (lazy: no store access)
    filter_calls,     \* the keyword arguments qs.filter was called with, in order
    qs_sort,          \* views.py:130
    qs_filters,       \* views.py:131
    count,            \* views.py:247
    offset,           \* views.py:255
    limit,            \* views.py:256
    store_calls,      \* the calls that reached the data store, in order
    response,         \* what do_api_search returns
    norm,             \* a call of normalize_field_value: its arguments and result
    bulk,             \* a run of the bulk load, views.py:270-284
    ser               \* a call of serialize_object: its arguments and result

vars == <<model, qs_type, request_options, pc, idx, qs, filter_calls, qs_sort, qs_filters,
          count, offset, limit, store_calls, response, norm, bulk, ser>>

\* the variables of do_api_search
search_vars ==
    <<model, qs_type, request_options, pc, idx, qs, filter_calls, qs_sort, qs_filters,
      count, offset, limit, store_calls, response>>

\* the variables of the calls studied on their own
call_vars == <<norm, bulk, ser>>

-----------------------------------------------------------------------------
(* Bounds of the model.                                                    *)

\* query keys of one request
MaxArgs == 2
\* tuples of Meta.unique_together
MaxTuples == 2
\* records the collection can hold
MaxCount == 1

-----------------------------------------------------------------------------
(* Generic helpers.                                                        *)

SeqsOf(S, lo, hi) == UNION {[1..n -> S] : n \in lo..hi}

Range(s) == {s[k] : k \in 1..Len(s)}

Last(s) == s[Len(s)]

\* dict[k] = v
Put(d, k, v) == [x \in (DOMAIN d) \cup {k} |-> IF x = k THEN v ELSE d[x]]

EmptyDict == [x \in {} |-> <<>>]

\* no call of the functions studied on their own is under way
NoCall == [pc |-> "none"]

-----------------------------------------------------------------------------
(* Program constants.                                                      *)

MaxLimit == 6000
MaxOffset == 10000
DefaultLimit == <<"1", "0", "0">>
DefaultOffset == <<"0">>

Operators ==
    {"contains", "exact", "gt", "gte", "lt", "lte", "in", "startswith", "range"}

Reserved == {<<"offset">>, <<"limit">>, <<"format">>, <<"fields">>, <<"callback">>}

SortArgs == {<<"sort">>, <<"order_by">>}

MultiValueOperators == {"in", "range"}

-----------------------------------------------------------------------------
(* Field descriptors and typed values.                                     *)

NoChoices == [kind |-> "none", keys |-> EmptyDict]

\* modelfield = None
NoModelField ==
    [present |-> FALSE, name |-> <<>>, null |-> FALSE, db_index |-> FALSE,
     type |-> "None", choices |-> NoChoices]

Field(name, type, null, db_index, choices) ==
    [present |-> TRUE, name |-> name, null |-> null, db_index |-> db_index,
     type |-> type, choices |-> choices]

NoneValue == [t |-> "None"]
BoolValue(b) == [t |-> "bool", b |-> b]
IntValue(n) == [t |-> "int", n |-> n]
DateValue(d) == [t |-> "datetime", d |-> d]
StrValue(v) == [t |-> "str", s |-> v]

Return(val) == [ok |-> TRUE, val |-> val, err |-> "none"]
Raise(err) == [ok |-> FALSE, val |-> NoneValue, err |-> err]

\* str.lower() on the pieces the model uses
LowerOf(a) ==
    CASE a \in {"NULL", "Null"} -> "null"
      [] a = "TRUE" -> "true"
      [] a = "ACTIVE" -> "active"
      [] OTHER -> a

\* v == "null", without lower()
IsNullString_exact(v) == v = <<"null">>

\* v.lower() == "null"
IsNullString(v) == Len(v) = 1 /\ LowerOf(v[1]) = "null"

\* dateutil.parser.parse(str(v), default=datetime.datetime.min): missing
\* components are taken from the default (month 1, day 1)
ParseDate(v) ==
    IF Len(v) # 1 THEN Raise("ValueError")
    ELSE CASE v[1] = "2020-01-01" -> Return(DateValue(<<2020, 1, 1>>))
           [] v[1] = "2020-06-01" -> Return(DateValue(<<2020, 6, 1>>))
           [] v[1] = "2020" -> Return(DateValue(<<2020, 1, 1>>))
           [] v[1] = "1" -> Return(DateValue(<<1, 1, 1>>))
           [] v[1] = "2014-xx-xx" -> Raise("TypeError")
           [] OTHER -> Raise("ValueError")

\* fieldtype in ("Boolean"): a substring test, ("Boolean") being a string
InBooleanString(fieldtype) == fieldtype \in {"Boolean", "Bool", ""}

\* the fieldtypes haystack_index_extra gives for the field's name
HaystackExtraTypes(m, modelfield) ==
    {m.haystack_index_extra[k][2] :
        k \in {j \in 1..Len(m.haystack_index_extra) :
                  modelfield.present /\ m.haystack_index_extra[j][1] = modelfield.name}}

is_bool(m, modelfield) ==
    \/ modelfield.present /\ modelfield.type = "BooleanField"
    \/ \E t \in HaystackExtraTypes(m, modelfield) : InBooleanString(t)

InDateTypes(fieldtype) == fieldtype \in {"Date", "DateTime"}

is_dt(m, modelfield) ==
    \/ modelfield.present /\ modelfield.type \in {"DateField", "DateTimeField"}
    \/ \E t \in HaystackExtraTypes(m, modelfield) : InDateTypes(t)

is_enum_pyenum(m, choices) == m.has_enum /\ choices.kind = "pyenum"

is_enum_commonenum(m, choices) == m.has_common_enum /\ choices.kind = "common"

is_enum(m, choices) == is_enum_pyenum(m, choices) \/ is_enum_commonenum(m, choices)

\* enum_key_to_value: only the common.enum branch returns a value
enum_key_to_value(m, choices, v) ==
    IF is_enum_commonenum(m, choices)
    THEN IF Len(v) = 1 /\ v[1] \in DOMAIN choices.keys
         THEN Return(IntValue(choices.keys[v[1]]))
         ELSE Raise("KeyError")
    ELSE Return(NoneValue)

normalize_field_value(v, m, modelfield) ==
    IF IsNullString(v) THEN
        IF modelfield.present /\ ~modelfield.null
        THEN Raise("ValueError")
        ELSE Return(NoneValue)
    ELSE IF is_bool(m, modelfield) THEN
        IF v = <<"true">> THEN Return(BoolValue(TRUE))
        ELSE IF v = <<"false">> THEN Return(BoolValue(FALSE))
        ELSE Raise("ValueError")
    ELSE IF modelfield.present /\ modelfield.choices.kind # "none"
            /\ is_enum(m, modelfield.choices) THEN
        LET r == enum_key_to_value(m, modelfield.choices, v)
        IN  IF r.ok THEN r ELSE Raise("ValueError")
    ELSE IF is_dt(m, modelfield) THEN
        LET r == ParseDate(v)
        IN  IF r.ok THEN r ELSE Raise("ValueError")
    ELSE Return(StrValue(v))

\* a normalize_field_value that hands back a value that is not a string
normalize_typed_value_lenient(x, m, modelfield) ==
    IF x.t = "str" THEN normalize_field_value(x.s, m, modelfield)
    ELSE Return(x)

\* normalize_field_value given a value that need not be a string: v.lower() at
\* views.py:298 raises AttributeError on None, a bool, an int or a datetime
normalize_typed_value(x, m, modelfield) ==
    IF x.t = "str" THEN normalize_field_value(x.s, m, modelfield)
    ELSE Raise("AttributeError")

\* [normalize_field_value(v, model, modelfield) for v in vals], views.py:203
NormalizeAll(vals, m, modelfield) ==
    [k \in 1..Len(vals) |-> normalize_field_value(vals[k], m, modelfield)]

AllOk(rs) == \A k \in 1..Len(rs) : rs[k].ok

Values(rs) == [k \in 1..Len(rs) |-> rs[k].val]

\* model._meta.get_field(fieldname), None when it raises
get_field(m, fieldname) ==
    IF \E k \in 1..Len(m.fields) : m.fields[k].name = fieldname
    THEN m.fields[CHOOSE k \in 1..Len(m.fields) : m.fields[k].name = fieldname]
    ELSE NoModelField

-----------------------------------------------------------------------------
(* Translation of one query argument, views.py:167-222.                    *)

\* a variant of rsplit that splits on the first "__"
rsplit_first(arg) ==
    IF Len(arg) <= 1 THEN <<arg>>
    ELSE <<<<arg[1]>>, Tail(arg)>>

\* arg.rsplit("__", 1)
rsplit(arg) ==
    IF Len(arg) <= 1 THEN <<arg>>
    ELSE <<SubSeq(arg, 1, Len(arg) - 1), <<arg[Len(arg)]>>>>

\* arg_parts[1] in ("contains", "exact", ...)
IsOperator(part) == Len(part) = 1 /\ part[1] \in Operators

\* a variant of arg_parts that keeps the split field name for a repeated key
arg_parts_strips_suffix(arg, vals) ==
    LET parts == rsplit(arg)
    IN  IF Len(vals) > 1 THEN <<parts[1], "in">>
        ELSE IF Len(parts) = 2 /\ ~IsOperator(parts[2])
             THEN <<parts[1] \o parts[2], "exact">>
        ELSE IF Len(parts) = 1 THEN <<parts[1], "exact">>
        ELSE <<parts[1], parts[2][1]>>

\* views.py:171-188: <<fieldname, matchoperator>>
arg_parts(arg, vals) ==
    LET parts == rsplit(arg)
    IN  IF Len(vals) > 1 THEN <<arg, "in">>
        ELSE IF Len(parts) = 2 /\ ~IsOperator(parts[2])
             THEN <<parts[1] \o parts[2], "exact">>
        ELSE IF Len(parts) = 1 THEN <<parts[1], "exact">>
        ELSE <<parts[1], parts[2][1]>>

\* vals[0].split("|") as a list of raw values
SplitPipes(v) == [k \in 1..Len(v) |-> <<v[k]>>]

\* views.py:196-200
split_values(matchoperator, vals) ==
    IF matchoperator \in MultiValueOperators /\ Len(vals) = 1
    THEN SplitPipes(vals[1])
    ELSE vals

\* a variant of RangeArityBad that only asks for at least two values
RangeArityBad_lax(matchoperator, vals) == matchoperator = "range" /\ Len(vals) < 2

\* views.py:213
RangeArityBad(matchoperator, vals) == matchoperator = "range" /\ Len(vals) # 2

\* views.py:215
InArityBad(matchoperator, vals) == matchoperator = "in" /\ Len(vals) = 0

\* the keyword argument of qs.filter, views.py:210 and 218
Predicate(arg, fieldname, matchoperator, vals) ==
    [arg |-> arg, field |-> fieldname, op |-> matchoperator,
     lookup |-> Append(fieldname, matchoperator),
     values |-> IF matchoperator \in MultiValueOperators THEN vals ELSE <<vals[1]>>]

\* views.py:171-218 up to the call of qs.filter
translate_arg(arg, vals, m) ==
    LET parts == arg_parts(arg, vals)
        fieldname == parts[1]
        matchoperator == parts[2]
        modelfield == get_field(m, fieldname)
        normalized == NormalizeAll(split_values(matchoperator, vals), m, modelfield)
    IN  [fieldname |-> fieldname, matchoperator |-> matchoperator,
         modelfield |-> modelfield,
         error |-> IF ~AllOk(normalized) THEN "InvalidValue"
                   ELSE IF RangeArityBad(matchoperator, Values(normalized))
                        THEN "RangeArity"
                   ELSE IF InArityBad(matchoperator, Values(normalized))
                        THEN "InArity"
                   ELSE "none",
         vals |-> Values(normalized)]

-----------------------------------------------------------------------------
(* get_model_filterable_fields, views.py:351-384.                          *)

\* dict.update
Update(d, e) ==
    [x \in (DOMAIN d) \cup (DOMAIN e) |-> IF x \in DOMAIN e THEN e[x] ELSE d[x]]

\* for i in xrange(len(unique_together)):
\*     indexed_if[unique_together[i]] = unique_together[:i]
RECURSIVE TupleEntries(_, _, _)
TupleEntries(d, unique_together, i) ==
    IF i > Len(unique_together) THEN d
    ELSE TupleEntries(Put(d, unique_together[i], SubSeq(unique_together, 1, i - 1)),
                      unique_together, i + 1)

\* for unique_together in model._meta.unique_together: ...
RECURSIVE UniqueTogetherEntries(_, _, _)
UniqueTogetherEntries(d, tuples, k) ==
    IF k > Len(tuples) THEN d
    ELSE UniqueTogetherEntries(TupleEntries(d, tuples[k], 1), tuples, k + 1)

indexed_fields(m, qt) ==
    IF qt = "QuerySet"
    THEN {m.fields[k].name :
            k \in {j \in 1..Len(m.fields) :
                     m.fields[j].name = <<"id">> \/ m.fields[j].db_index}}
    ELSE Range(m.haystack_index)
         \cup {m.haystack_index_extra[k][1] : k \in 1..Len(m.haystack_index_extra)}

indexed_if(m, qt) ==
    IF qt = "QuerySet"
    THEN Update(UniqueTogetherEntries(EmptyDict, m.unique_together, 1), m.api_filter_if)
    ELSE EmptyDict

\* indexed_if.get(fieldname, [])
Dependencies(m, qt, fieldname) ==
    IF fieldname \in DOMAIN indexed_if(m, qt) THEN indexed_if(m, qt)[fieldname] ELSE <<>>

\* a variant of SortRejected that lets a sort through on any filterable field
SortRejected_lax(m, qt, sort) ==
    /\ sort.set
    /\ sort.field \notin indexed_fields(m, qt)
    /\ sort.field \notin DOMAIN indexed_if(m, qt)

\* views.py:230
SortRejected(m, qt, sort) == sort.set /\ sort.field \notin indexed_fields(m, qt)

\* views.py:235
NotFilterable(m, qt, fieldname) ==
    fieldname \notin indexed_fields(m, qt) /\ fieldname \notin DOMAIN indexed_if(m, qt)

\* a variant of MissingCoFilter that looks the dependency up among the indexed
\* fields instead of among the filters of the request
MissingCoFilter_checks_index(m, qt, fieldname, filters) ==
    \E f2 \in Range(Dependencies(m, qt, fieldname)) : f2 \notin indexed_fields(m, qt)

\* views.py:238-239
MissingCoFilter(m, qt, fieldname, filters) ==
    \E f2 \in Range(Dependencies(m, qt, fieldname)) : f2 \notin DOMAIN filters

-----------------------------------------------------------------------------
(* Pagination parameters, views.py:253-266.                                *)

Digits == {"0", "1", "2", "3", "4", "5", "6", "7", "8", "9"}

DigitValue(c) ==
    CASE c = "0" -> 0 [] c = "1" -> 1 [] c = "2" -> 2 [] c = "3" -> 3 [] c = "4" -> 4
      [] c = "5" -> 5 [] c = "6" -> 6 [] c = "7" -> 7 [] c = "8" -> 8 [] c = "9" -> 9

RECURSIVE DecimalValue(_)
DecimalValue(chars) ==
    IF chars = <<>> THEN 0
    ELSE 10 * DecimalValue(SubSeq(chars, 1, Len(chars) - 1)) + DigitValue(Last(chars))

\* int(text) for unsigned numerals; anything else raises ValueError
ParseInt(chars) ==
    IF chars # <<>> /\ \A k \in 1..Len(chars) : chars[k] \in Digits
    THEN [ok |-> TRUE, n |-> DecimalValue(chars)]
    ELSE [ok |-> FALSE, n |-> 0]

\* request_options.get(key, default): the last value given for the key
Get(options, key, default) ==
    IF \E k \in 1..Len(options) : options[k].arg = key
    THEN Last(options[CHOOSE k \in 1..Len(options) : options[k].arg = key].vals)
    ELSE default

\* a variant of LimitTooHigh that rejects the maximum itself
LimitTooHigh_inclusive(n) == n >= MaxLimit

\* views.py:260
LimitTooHigh(n) == n > MaxLimit

\* a variant of OffsetTooHigh that rejects the maximum itself
OffsetTooHigh_inclusive(qt, n) == qt = "QuerySet" /\ n >= MaxOffset

\* views.py:263-265
OffsetTooHigh(qt, n) == qt = "QuerySet" /\ n > MaxOffset

-----------------------------------------------------------------------------
(* Responses.                                                              *)

NoMeta == [offset |-> 0, limit |-> 0, total_count |-> 0]

NoResponse ==
    [status |-> "none", error |-> "none", field |-> <<>>, meta |-> NoMeta,
     objects |-> <<>>]

HttpResponseBadRequest(error, field) ==
    [status |-> "BadRequest", error |-> error, field |-> field, meta |-> NoMeta,
     objects |-> <<>>]

Envelope(meta, objects) ==
    [status |-> "OK", error |-> "none", field |-> <<>>, meta |-> meta,
     objects |-> objects]

EmptyQuery == [filters |-> <<>>, order_by |-> <<>>, content |-> <<>>, slice |-> <<>>]

NoSort == [set |-> FALSE, field |-> <<>>, dir |-> "+"]

\* views.py:156-157
SortSpec(v) ==
    IF v # <<>> /\ v[1] = "-"
    THEN [set |-> TRUE, field |-> Tail(v), dir |-> "-"]
    ELSE [set |-> TRUE, field |-> v, dir |-> "+"]

-----------------------------------------------------------------------------
(* The models and requests the checks range over.                          *)

CommonEnum ==
    [kind |-> "common",
     keys |-> [k \in {"ACTIVE", "CLOSED"} |-> IF k = "ACTIVE" THEN 1 ELSE 2]]

\* model._meta.fields of the example model; db_index on the names in indexed
ModelFields(indexed) ==
    <<Field(<<"id">>, "AutoField", FALSE, FALSE, NoChoices),
      Field(<<"country">>, "CharField", FALSE, <<"country">> \in indexed, NoChoices),
      Field(<<"city">>, "CharField", FALSE, <<"city">> \in indexed, NoChoices),
      Field(<<"note">>, "CharField", TRUE, <<"note">> \in indexed, NoChoices),
      Field(<<"createdAt">>, "DateField", TRUE, <<"createdAt">> \in indexed, NoChoices),
      Field(<<"status">>, "IntegerField", FALSE, <<"status">> \in indexed, CommonEnum),
      Field(<<"active">>, "BooleanField", FALSE, <<"active">> \in indexed, NoChoices)>>

ApiModel(indexed, unique_together, api_filter_if, haystack_index) ==
    [fields |-> ModelFields(indexed),
     unique_together |-> unique_together,
     api_filter_if |-> api_filter_if,
     haystack_index |-> haystack_index,
     haystack_index_extra |-> <<<<<<"tag">>, "Char">>>>,
     has_enum |-> FALSE,
     has_common_enum |-> TRUE]

QsTypes == {"QuerySet", "SearchQuerySet"}

\* one model, for the requests that exercise the translation of arguments
CityModel ==
    ApiModel({<<"country">>, <<"createdAt">>, <<"status">>}, <<>>,
             [f \in {<<"city">>} |-> <<<<"country">>>>],
             <<<<"country">>, <<"city">>, <<"createdAt">>>>)

UniqueTuples ==
    {<<<<"country">>, <<"city">>>>, <<<<"city">>, <<"country">>>>,
     <<<<"city">>, <<"id">>>>}

FilterIfs ==
    {EmptyDict,
     [f \in {<<"city">>} |-> <<<<"country">>>>],
     [f \in {<<"country">>} |-> <<>>],
     [f \in {<<"note">>} |-> <<<<"city">>>>]}

\* Meta.unique_together declarations: each tuple at most once
UniqueTogethers ==
    {ut \in SeqsOf(UniqueTuples, 0, MaxTuples) :
        \A j, k \in 1..Len(ut) : j # k => ut[j] # ut[k]}

\* the models that differ in their indexes and dependency declarations
IndexModels ==
    {ApiModel(ix, ut, fi, hi) :
        ix \in {{}, {<<"country">>}, {<<"country">>, <<"city">>}},
        ut \in UniqueTogethers,
        fi \in FilterIfs,
        hi \in {<<<<"country">>>>}}

One(v) == <<<<v>>>>

Arg(arg, vals) == [arg |-> arg, vals |-> vals]

\* arguments that exercise operators, repeated keys and "|"-separated values
TranslateArgs ==
    {Arg(<<"id", op>>, One("1")) : op \in Operators \cup {"x"}}
    \cup {Arg(k, v) :
            k \in {<<"country">>, <<"country", "in">>},
            v \in {One("1"), <<<<"1">>, <<"2">>>>, <<<<"1", "2">>>>}}
    \cup {Arg(k, v) :
            k \in {<<"country", "gt">>, <<"city", "name">>},
            v \in {One("1"), <<<<"1">>, <<"2">>>>}}
    \cup {Arg(<<"createdAt", "range">>, v) :
            v \in {One("2020-01-01"), <<<<"2020-01-01", "2020-06-01">>>>,
                   <<<<"2020-01-01", "2020-06-01", "2020">>>>,
                   <<<<"2020-01-01", "x">>>>,
                   <<<<"2020-01-01">>, <<"2020-06-01">>>>}}
    \cup {Arg(<<"city", "name", "lt">>, One("1")), Arg(<<"id", "lt", "x">>, One("1")),
          Arg(<<"city">>, One("1")), Arg(<<"note">>, One("null")),
          Arg(<<"status">>, One("ACTIVE")), Arg(<<"q">>, One("1")),
          Arg(<<"q">>, <<<<"1">>, <<"2">>>>), Arg(<<"format">>, One("json")),
          Arg(<<"offset", "gt">>, One("1"))}

PageArgs ==
    {Arg(<<"offset">>, <<v>>) :
        v \in {<<"0">>, <<"9", "9", "9", "9">>, <<"1", "0", "0", "0", "0">>,
               <<"1", "0", "0", "0", "1">>, <<"x">>}}
    \cup {Arg(<<"limit">>, <<v>>) :
            v \in {<<"5">>, <<"6", "0", "0", "0">>, <<"6", "0", "0", "1">>, <<>>}}
    \cup {Arg(<<"limit">>, <<<<"6", "0", "0", "1">>, <<"5">>>>),
          Arg(<<"offset">>, <<<<"0">>, <<"1", "0", "0", "0", "1">>>>)}

\* the filters and sorts that accompany the pagination parameters
PageFilterArgs ==
    {Arg(<<"country">>, One("1")), Arg(<<"note">>, One("1")),
     Arg(<<"createdAt", "range">>, One("2020-01-01")), Arg(<<"id", "x">>, One("1")),
     Arg(<<"sort">>, <<<<"-", "country">>>>), Arg(<<"order_by">>, <<<<"note">>>>),
     Arg(<<"sort">>, <<<<"country">>, <<"id">>>>)}

\* arguments that exercise the filterability rules
IndexArgs ==
    {Arg(<<f>>, One("1")) : f \in {"id", "country", "city", "note"}}
    \cup {Arg(<<"sort">>, <<<<"country">>>>), Arg(<<"order_by">>, <<<<"-", "note">>>>)}

\* query strings: each key once, as QueryDict.lists() yields them
Requests(args, n) ==
    {r \in SeqsOf(args, 0, n) :
        \A j, k \in 1..Len(r) : j # k => r[j].arg # r[k].arg}

Scenarios ==
    [model : {CityModel}, qs_type : QsTypes,
     request : Requests(TranslateArgs, MaxArgs)
               \cup Requests(PageArgs \cup PageFilterArgs, MaxArgs)]
    \cup [model : IndexModels, qs_type : {"QuerySet"},
          request : Requests(IndexArgs, MaxArgs)]
    \cup [model : {CityModel, ApiModel({}, <<>>, EmptyDict, <<>>)},
          qs_type : {"SearchQuerySet"}, request : Requests(IndexArgs, MaxArgs)]

-----------------------------------------------------------------------------
(* do_api_search, views.py:120-294.                                        *)

Init ==
    /\ model = CityModel
    /\ qs_type = "QuerySet"
    /\ request_options = <<>>
    /\ pc = "idle"
    /\ idx = 1
    /\ qs = EmptyQuery
    /\ filter_calls = <<>>
    /\ qs_sort = NoSort
    /\ qs_filters = EmptyDict
    /\ count = 0
    /\ offset = 0
    /\ limit = 0
    /\ store_calls = <<>>
    /\ response = NoResponse
    /\ norm = NoCall
    /\ bulk = NoCall
    /\ ser = NoCall

Finish(resp) == response' = resp /\ pc' = "done"

\* api_request hands a request to do_api_search, views.py:28-36 and 78-79
Receive ==
    /\ pc = "idle"
    /\ \E scenario \in Scenarios :
        /\ model' = scenario.model
        /\ qs_type' = scenario.qs_type
        /\ request_options' = scenario.request
    /\ pc' = "args"
    /\ UNCHANGED <<idx, qs, filter_calls, qs_sort, qs_filters, count, offset, limit,
                   store_calls, response>>
    /\ UNCHANGED call_vars

InLoop == pc = "args" /\ idx <= Len(request_options)

IsQArg(arg, qt) == arg = <<"q">> /\ qt = "SearchQuerySet"

\* views.py:141-143
SkipReserved ==
    /\ InLoop
    /\ request_options[idx].arg \in Reserved
    /\ idx' = idx + 1
    /\ UNCHANGED <<model, qs_type, request_options, pc, qs, filter_calls, qs_sort,
                   qs_filters, count, offset, limit, store_calls, response>>
    /\ UNCHANGED call_vars

\* views.py:145-157; qs.order_by may raise
SortArg ==
    /\ InLoop
    /\ request_options[idx].arg \notin Reserved
    /\ request_options[idx].arg \in SortArgs
    /\ LET vals == request_options[idx].vals
       IN  IF Len(vals) # 1
           THEN /\ Finish(HttpResponseBadRequest("MultipleSort", <<>>))
                /\ UNCHANGED <<idx, qs, qs_sort>>
           ELSE \E raises \in BOOLEAN :
                    IF raises
                    THEN /\ Finish(HttpResponseBadRequest("InvalidSort", <<>>))
                         /\ UNCHANGED <<idx, qs, qs_sort>>
                    ELSE /\ qs' = [qs EXCEPT !.order_by = Append(@, vals[1])]
                         /\ qs_sort' = SortSpec(vals[1])
                         /\ idx' = idx + 1
                         /\ UNCHANGED <<pc, response>>
    /\ UNCHANGED <<model, qs_type, request_options, filter_calls, qs_filters, count,
                   offset, limit, store_calls>>
    /\ UNCHANGED call_vars

\* views.py:159-165
QArg ==
    /\ InLoop
    /\ request_options[idx].arg \notin Reserved \cup SortArgs
    /\ IsQArg(request_options[idx].arg, qs_type)
    /\ LET vals == request_options[idx].vals
       IN  IF Len(vals) # 1
           THEN /\ Finish(HttpResponseBadRequest("MultipleQ", <<"q">>))
                /\ UNCHANGED <<idx, qs>>
           ELSE /\ qs' = [qs EXCEPT !.content = Append(@, vals[1])]
                /\ idx' = idx + 1
                /\ UNCHANGED <<pc, response>>
    /\ UNCHANGED <<model, qs_type, request_options, filter_calls, qs_sort, qs_filters,
                   count, offset, limit, store_calls>>
    /\ UNCHANGED call_vars

\* a variant of ApplyFilter in which the last predicate on a field replaces the
\* earlier ones
ApplyFilter_last_wins(filters, p) ==
    Append(SelectSeq(filters, LAMBDA q : q.field # p.field), p)

\* qs.filter(**{lookup: value}): one more condition on the collection
ApplyFilter(filters, p) == Append(filters, p)

\* whether qs.filter raises: a QuerySet raises FieldError for a name that is no
\* field of the model (no field of the example model is a relation, so that no
\* "field__subfield" resolves); any call may raise otherwise
FilterOutcomes(m, qt, fieldname) ==
    IF qt = "QuerySet" /\ ~get_field(m, fieldname).present
    THEN {TRUE}
    ELSE BOOLEAN

\* views.py:167-222; raises: whether qs.filter raised
FilterArg ==
    /\ InLoop
    /\ request_options[idx].arg \notin Reserved \cup SortArgs
    /\ ~IsQArg(request_options[idx].arg, qs_type)
    /\ LET arg == request_options[idx].arg
           t == translate_arg(arg, request_options[idx].vals, model)
           p == Predicate(arg, t.fieldname, t.matchoperator, t.vals)
       IN  IF t.error = "InvalidValue"
           THEN /\ Finish(HttpResponseBadRequest("InvalidValue", t.fieldname))
                /\ UNCHANGED <<idx, qs, filter_calls, qs_filters>>
           ELSE IF t.error # "none"
           THEN /\ Finish(HttpResponseBadRequest(t.error, <<>>))
                /\ UNCHANGED <<idx, qs, filter_calls, qs_filters>>
           ELSE /\ filter_calls' = Append(filter_calls, p)
                /\ \E raises \in FilterOutcomes(model, qs_type, t.fieldname) :
                    IF raises
                    THEN /\ Finish(HttpResponseBadRequest("FilterRaised", t.fieldname))
                         /\ UNCHANGED <<idx, qs, qs_filters>>
                    ELSE /\ qs' = [qs EXCEPT !.filters = ApplyFilter(@, p)]
                         /\ qs_filters' = Put(qs_filters, t.fieldname,
                                              <<t.matchoperator, t.modelfield>>)
                         /\ idx' = idx + 1
                         /\ UNCHANGED <<pc, response>>
    /\ UNCHANGED <<model, qs_type, request_options, qs_sort, count, offset, limit,
                   store_calls>>
    /\ UNCHANGED call_vars

\* the responses the loop at views.py:234-241 can return: qs_filters is a dict,
\* iterated in no particular order, and the first offending field ends the loop
Rejections(m, qt, filters) ==
    {HttpResponseBadRequest("CannotFilter", f) :
        f \in {g \in DOMAIN filters : NotFilterable(m, qt, g)}}
    \cup {HttpResponseBadRequest("MissingCoFilter", f) :
            f \in {g \in DOMAIN filters :
                     ~NotFilterable(m, qt, g) /\ MissingCoFilter(m, qt, g, filters)}}

\* views.py:225-241
ValidateFilters ==
    /\ pc = "args"
    /\ idx > Len(request_options)
    /\ IF SortRejected(model, qs_type, qs_sort)
       THEN Finish(HttpResponseBadRequest("CannotSort", qs_sort.field))
       ELSE IF Rejections(model, qs_type, qs_filters) # {}
       THEN \E r \in Rejections(model, qs_type, qs_filters) : Finish(r)
       ELSE pc' = "count" /\ UNCHANGED response
    /\ UNCHANGED <<model, qs_type, request_options, idx, qs, filter_calls, qs_sort,
                   qs_filters, count, offset, limit, store_calls>>
    /\ UNCHANGED call_vars

CountOutcomes ==
    {[raises |-> "none", n |-> n] : n \in 0..MaxCount}
    \cup {[raises |-> e, n |-> 0] : e \in {"ValueError", "Exception"}}

\* views.py:245-251: the first call that reaches the data store
Count ==
    /\ pc = "count"
    /\ store_calls' = Append(store_calls, "count")
    /\ \E outcome \in CountOutcomes :
        IF outcome.raises = "none"
        THEN count' = outcome.n /\ pc' = "page" /\ UNCHANGED response
        ELSE /\ Finish(HttpResponseBadRequest(
                    IF outcome.raises = "ValueError" THEN "InvalidParameter"
                    ELSE "QueryWrong", <<>>))
             /\ UNCHANGED count
    /\ UNCHANGED <<model, qs_type, request_options, idx, qs, filter_calls, qs_sort,
                   qs_filters, offset, limit>>
    /\ UNCHANGED call_vars

\* views.py:253-268
Paginate ==
    /\ pc = "page"
    /\ LET o == ParseInt(Get(request_options, <<"offset">>, DefaultOffset))
           l == ParseInt(Get(request_options, <<"limit">>, DefaultLimit))
       IN  IF ~o.ok \/ ~l.ok
           THEN /\ Finish(HttpResponseBadRequest("InvalidOffsetOrLimit", <<>>))
                /\ UNCHANGED <<offset, limit, qs>>
           ELSE /\ offset' = o.n
                /\ limit' = l.n
                /\ IF LimitTooHigh(l.n)
                   THEN /\ Finish(HttpResponseBadRequest("LimitTooHigh", <<>>))
                        /\ UNCHANGED qs
                   ELSE IF OffsetTooHigh(qs_type, o.n)
                   THEN /\ Finish(HttpResponseBadRequest("OffsetTooHigh", <<>>))
                        /\ UNCHANGED qs
                   ELSE /\ qs' = [qs EXCEPT !.slice = <<o.n, o.n + l.n>>]
                        /\ pc' = "fetch"
                        /\ UNCHANGED response
    /\ UNCHANGED <<model, qs_type, request_options, idx, filter_calls, qs_sort,
                   qs_filters, count, store_calls>>
    /\ UNCHANGED call_vars

\* the records qs[offset:offset + limit] holds when the collection holds n records,
\* numbered in the collection's order
SliceOf(n, slice) ==
    LET stop == IF slice[2] < n THEN slice[2] ELSE n
    IN  [k \in 1..(IF stop > slice[1] THEN stop - slice[1] ELSE 0) |-> slice[1] + k]

\* the store calls of views.py:270-293
FetchCalls(qt) == IF qt = "QuerySet" THEN <<"slice">> ELSE <<"slice", "fetch">>

\* views.py:270-294
Fetch ==
    /\ pc = "fetch"
    /\ store_calls' = store_calls \o FetchCalls(qs_type)
    /\ Finish(Envelope([offset |-> offset, limit |-> limit, total_count |-> count],
                       SliceOf(count, qs.slice)))
    /\ UNCHANGED <<model, qs_type, request_options, idx, qs, filter_calls, qs_sort,
                   qs_filters, count, offset, limit>>
    /\ UNCHANGED call_vars

\* the response is returned and the next request is awaited
Reset ==
    /\ pc = "done"
    /\ model' = CityModel
    /\ qs_type' = "QuerySet"
    /\ request_options' = <<>>
    /\ pc' = "idle"
    /\ idx' = 1
    /\ qs' = EmptyQuery
    /\ filter_calls' = <<>>
    /\ qs_sort' = NoSort
    /\ qs_filters' = EmptyDict
    /\ count' = 0
    /\ offset' = 0
    /\ limit' = 0
    /\ store_calls' = <<>>
    /\ response' = NoResponse
    /\ UNCHANGED call_vars

Next ==
    \/ Receive
    \/ SkipReserved
    \/ SortArg
    \/ QArg
    \/ FilterArg
    \/ ValidateFilters
    \/ Count
    \/ Paginate
    \/ Fetch
    \/ Reset

Spec == Init /\ [][Next]_vars

-----------------------------------------------------------------------------
(* normalize_field_value on its own, views.py:296-349.                     *)

\* no request is being served
SearchIdle ==
    /\ model = CityModel
    /\ qs_type = "QuerySet"
    /\ request_options = <<>>
    /\ pc = "idle"
    /\ idx = 1
    /\ qs = EmptyQuery
    /\ filter_calls = <<>>
    /\ qs_sort = NoSort
    /\ qs_filters = EmptyDict
    /\ count = 0
    /\ offset = 0
    /\ limit = 0
    /\ store_calls = <<>>
    /\ response = NoResponse

\* choices given as (enum.Enum member, label) pairs
PyEnum ==
    [kind |-> "pyenum",
     keys |-> [k \in {"ACTIVE", "CLOSED"} |-> IF k = "ACTIVE" THEN 1 ELSE 2]]

\* the example model in a Python 3 process (utils.py:13-17), with a field whose
\* choices are members of an enum.Enum
Py3Model ==
    [CityModel EXCEPT
        !.has_enum = TRUE,
        !.fields = Append(CityModel.fields,
                          Field(<<"stage">>, "IntegerField", FALSE, TRUE, PyEnum))]

\* the example model with Haystack fields typed by haystack_index_extra
ExtraModel ==
    [CityModel EXCEPT
        !.haystack_index_extra = <<<<<<"note">>, "Boolean">>, <<<<"city">>, "DateTime">>>>]

NormModels == {CityModel, Py3Model, ExtraModel}

\* raw values of a filter: a string is the sequence of its "|"-separated pieces
RawValues ==
    {<<a>> : a \in {"null", "NULL", "Null", "true", "false", "TRUE", "ACTIVE", "CLOSED",
                    "active", "unknown", "1", "2020-01-01", "2020", "2014-xx-xx", "x"}}
    \cup {<<"1", "2">>}

NoResult == [ok |-> FALSE, val |-> NoneValue, err |-> "not called"]

NormInputs ==
    UNION {{[pc |-> "call", v |-> v, model |-> m, modelfield |-> f,
             result |-> NoResult, again |-> NoResult] :
               v \in RawValues, f \in Range(m.fields) \cup {NoModelField}} :
           m \in NormModels}

NormInit ==
    /\ SearchIdle
    /\ norm \in NormInputs
    /\ bulk = NoCall
    /\ ser = NoCall

\* vals = [normalize_field_value(v, model, modelfield) ...], views.py:203
Normalize ==
    /\ norm.pc = "call"
    /\ norm' = [norm EXCEPT
                   !.pc = "returned",
                   !.result = normalize_field_value(norm.v, norm.model, norm.modelfield)]
    /\ UNCHANGED <<search_vars, bulk, ser>>

\* the normalized value is normalized once more against the same descriptor
Renormalize ==
    /\ norm.pc = "returned"
    /\ norm.result.ok
    /\ norm' = [norm EXCEPT
                   !.pc = "again",
                   !.again = normalize_typed_value(norm.result.val, norm.model,
                                                   norm.modelfield)]
    /\ UNCHANGED <<search_vars, bulk, ser>>

NormNext ==
    \/ Normalize
    \/ Renormalize

NormSpec == NormInit /\ [][NormNext]_vars

-----------------------------------------------------------------------------
(* The bulk load on its own, views.py:270-284.                             *)

\* entries of a sliced search result
MaxHits == 4

\* the pk of a search entry is a string
PkChars == {"1", "2", "3"}

\* the sequences that hold each element of S once
Perms(S) == {p \in [1..Cardinality(S) -> S] : Range(p) = S}

\* ids = [entry.pk for entry in qs], views.py:279
BulkInputs ==
    {[pc |-> "sliced", qs_type |-> "SearchQuerySet", hits |-> h, stored |-> st,
      fetched |-> <<>>, objs |-> <<>>] :
        h \in SeqsOf(PkChars, 0, MaxHits), st \in SUBSET {1, 2, 3}}
    \cup {[pc |-> "sliced", qs_type |-> "QuerySet", hits |-> <<>>, stored |-> st,
           fetched |-> <<>>, objs |-> <<>>] : st \in SUBSET {1, 2, 3}}

BulkInit ==
    /\ SearchIdle
    /\ norm = NoCall
    /\ bulk \in BulkInputs
    /\ ser = NoCall

\* views.py:272-275: the rows of the slice, in the collection's order
Prefetch ==
    /\ bulk.pc = "sliced"
    /\ bulk.qs_type = "QuerySet"
    /\ \E rows \in Perms(bulk.stored) :
        bulk' = [bulk EXCEPT !.pc = "done", !.fetched = rows, !.objs = rows]
    /\ UNCHANGED <<search_vars, norm, ser>>

\* id_index = { int(id): i for i, id in enumerate(ids) }, views.py:280
id_index(ids) ==
    [n \in {DigitValue(ids[k]) : k \in 1..Len(ids)} |->
        (CHOOSE k \in 1..Len(ids) :
            /\ DigitValue(ids[k]) = n
            /\ \A j \in 1..Len(ids) : DigitValue(ids[j]) = n => j <= k) - 1]

\* views.py:281: model.objects.filter(id__in=ids) yields each stored record whose
\* id is among ids once, in an order the store chooses
FetchByIds ==
    /\ bulk.pc = "sliced"
    /\ bulk.qs_type = "SearchQuerySet"
    /\ \E rows \in Perms(bulk.stored \cap DOMAIN id_index(bulk.hits)) :
        bulk' = [bulk EXCEPT !.pc = "fetched", !.fetched = rows]
    /\ UNCHANGED <<search_vars, norm, ser>>

\* objs left in the order the store returned them
sort_by_skipped(objs, key) == objs

RECURSIVE sort_by(_, _)
\* objs.sort(key = lambda ob : id_index[int(ob.id)]), views.py:282: a stable sort
sort_by(objs, key) ==
    IF objs = <<>> THEN <<>>
    ELSE LET rest == sort_by(Tail(objs), key)
             ob == Head(objs)
             n == Cardinality({k \in 1..Len(rest) : key[rest[k]] < key[ob]})
         IN  SubSeq(rest, 1, n) \o <<ob>> \o SubSeq(rest, n + 1, Len(rest))

\* views.py:282
SortFetched ==
    /\ bulk.pc = "fetched"
    /\ bulk' = [bulk EXCEPT !.pc = "done",
                            !.objs = sort_by(bulk.fetched, id_index(bulk.hits))]
    /\ UNCHANGED <<search_vars, norm, ser>>

BulkNext ==
    \/ Prefetch
    \/ FetchByIds
    \/ SortFetched

BulkSpec == BulkInit /\ [][BulkNext]_vars

-----------------------------------------------------------------------------
(* serialize_object, serializers.py:19-126.                                *)
(*                                                                         *)
(* A Python value is a record tagged with its type in t.  A string is the  *)
(* sequence of its pieces, as above.  A model instance is a reference into *)
(* the table of records, w; a record gives its fields in the order         *)
(* get_orm_fields yields them and the values of its attributes.  A key of  *)
(* an output dict is <<field_name>>, and <<field_name, "_label">> for      *)
(* field_name + "_label".                                                  *)

\* frames serialize_object may nest before Python raises RecursionError
RecursionLimit == 6

DateOnly(d) == [t |-> "date", d |-> d]
\* a decimal.Decimal, as a number of hundredths
Decimal(n) == [t |-> "Decimal", hundredths |-> n]
FloatValue(n) == [t |-> "float", hundredths |-> n]
ListValue(items) == [t |-> "list", items |-> items]
DictValue(items) == [t |-> "dict", items |-> items]
ModelValue(ref) == [t |-> "Model", ref |-> ref]
\* a RelatedManager and the records its all() yields
RelatedManager(refs) == [t |-> "RelatedManager", all |-> refs]
\* a ManyRelatedManager: the manager of a many-to-many relation
ManyRelatedManager(refs) == [t |-> "ManyRelatedManager", all |-> refs, repr |-> <<"<ManyRelatedManager>">>]
\* any other object, with its unicode()
ObjectValue(repr) == [t |-> "object", repr |-> repr]
\* getattr raises (DoesNotExist)
RaisesValue == [t |-> "raises"]
\* the call died of RecursionError
RecursionError == [t |-> "RecursionError", list |-> <<>>]

\* requested_fields: None or a list
NoRequestedFields == [given |-> FALSE, list |-> <<>>]
RequestedFields(list) == [given |-> TRUE, list |-> list]

BasicTypes == {"str", "int", "bool", "float", "list", "dict", "None"}

\* obj.isoformat()
isoformat(obj) ==
    CASE obj.t = "date" /\ obj.d = <<2020, 1, 1>> -> <<"2020-01-01">>
      [] obj.t = "date" /\ obj.d = <<2020, 6, 1>> -> <<"2020-06-01">>
      [] obj.t = "datetime" /\ obj.d = <<2020, 1, 1>> -> <<"2020-01-01T00:00:00">>
      [] obj.t = "datetime" /\ obj.d = <<2020, 6, 1>> -> <<"2020-06-01T00:00:00">>
      [] OTHER -> <<"0001-01-01T00:00:00">>

\* enum_value_to_key_and_label, utils.py:40-44
enum_value_to_key_and_label(m, choices, value) ==
    IF is_enum_commonenum(m, choices)
    THEN LET k == CHOOSE k \in DOMAIN choices.keys : choices.keys[k] = value.n
         IN  [key |-> StrValue(<<k>>), label |-> choices.labels[k]]
    ELSE [key |-> StrValue(<<value.name>>), label |-> <<>>]

\* get_orm_fields, utils.py:46-62: the fields of a record that are yielded
get_orm_fields(rec) ==
    SelectSeq(rec.fields, LAMBDA f : f.kind \in {"str", "RelatedObject"} \/ ~f.auto_created)

\* local_fields, serializers.py:42
local_fields(requested_fields) ==
    {requested_fields.list[k][1] : k \in 1..Len(requested_fields.list)}

\* serializers.py:50
NotRequested(field_name, requested_fields) ==
    requested_fields.given /\ field_name \notin local_fields(requested_fields)

\* field_name in recurse_on
InRecurseOn(field_name, recurse_on) == <<field_name>> \in Range(recurse_on)

\* [r[len(field_name)+2:] for r in paths if r.startswith(field_name + "__")]
StripPrefix(field_name, paths) ==
    LET qualified == SelectSeq(paths, LAMBDA r : Len(r) >= 2 /\ r[1] = field_name)
    IN  [k \in 1..Len(qualified) |-> Tail(qualified[k])]

\* sub_recurse_on, serializers.py:94
sub_recurse_on(field_name, recurse_on) == StripPrefix(field_name, recurse_on)

\* sub_fields, serializers.py:97
sub_fields(field_name, requested_fields) ==
    IF requested_fields.given
    THEN RequestedFields(StripPrefix(field_name, requested_fields.list))
    ELSE NoRequestedFields

\* the value of the field, serializers.py:71-90; None when getattr raises
field_value(rec, field) ==
    LET v == rec.attrs[<<field.name>>]
    IN  IF field.kind # "str" /\ v.t = "raises" THEN NoneValue ELSE v

\* a ForeignKey emitted although it is not in recurse_on
EmitsIdOnly_never(field, recurse_on) == FALSE

\* serializers.py:64: a ForeignKey not in recurse_on gives the cached id
EmitsIdOnly(field, recurse_on) ==
    field.kind = "ForeignKey" /\ ~InRecurseOn(field.name, recurse_on)

\* serializers.py:67
SkipsReverse(field, recurse_on) ==
    field.kind = "RelatedObject" /\ ~InRecurseOn(field.name, recurse_on)

\* serializers.py:103
IsManyValued(field, v) == field.kind = "ManyToManyField" \/ v.t = "RelatedManager"

\* the entries one field adds to ret
Entries(list) == [t |-> "entries", list |-> list]

\* the first RecursionError among the values, if any
FirstError(vals) ==
    IF \E k \in 1..Len(vals) : vals[k].t = "RecursionError"
    THEN RecursionError ELSE ListValue(vals)

RECURSIVE serialize_object(_, _, _, _, _)
RECURSIVE field_entries(_, _, _, _, _, _)
RECURSIVE serialize_fields(_, _, _, _, _, _)

\* serializers.py:19-126; w is the table of records, depth the frames left
serialize_object(w, obj, recurse_on, requested_fields, depth) ==
    IF depth = 0 THEN RecursionError
    ELSE IF obj.t \in BasicTypes THEN obj
    ELSE IF obj.t \in {"date", "datetime"} THEN StrValue(isoformat(obj))
    ELSE IF obj.t = "Decimal" THEN FloatValue(obj.hundredths)
    ELSE IF obj.t = "Model" THEN
        serialize_fields(w, w[obj.ref], get_orm_fields(w[obj.ref]), recurse_on,
                         requested_fields, depth)
    ELSE StrValue(obj.repr)

\* serializers.py:48-120 for one field: the entries it adds to ret, in order, or
\* a RecursionError
field_entries(w, rec, field, recurse_on, requested_fields, depth) ==
    IF NotRequested(field.name, requested_fields) THEN Entries(<<>>)
    ELSE IF EmitsIdOnly(field, recurse_on)
    THEN Entries(<<[key |-> <<field.name>>, val |-> rec.attrs[<<field.name, "_id">>]]>>)
    ELSE IF SkipsReverse(field, recurse_on) THEN Entries(<<>>)
    ELSE
        LET v == field_value(rec, field)
            sub_r == sub_recurse_on(field.name, recurse_on)
            sub_f == sub_fields(field.name, requested_fields)
        IN  IF IsManyValued(field, v) THEN
                IF InRecurseOn(field.name, recurse_on)
                THEN LET items ==
                           FirstError([k \in 1..Len(v.all) |->
                               serialize_object(w, ModelValue(v.all[k]), sub_r, sub_f,
                                                depth - 1)])
                     IN  IF items.t = "RecursionError" THEN RecursionError
                         ELSE Entries(<<[key |-> <<field.name>>, val |-> items]>>)
                ELSE Entries(<<>>)
            ELSE IF v.t # "None" /\ is_enum(rec.process, field.choices) THEN
                LET kl == enum_value_to_key_and_label(rec.process, field.choices, v)
                IN  Entries(<<[key |-> <<field.name>>, val |-> kl.key]>>
                            \o (IF kl.label # <<>>
                                THEN <<[key |-> <<field.name, "_label">>,
                                        val |-> StrValue(kl.label)]>>
                                ELSE <<>>))
            ELSE
                LET inner == serialize_object(w, v, sub_r, sub_f, depth - 1)
                IN  IF inner.t = "RecursionError" THEN RecursionError
                    ELSE Entries(<<[key |-> <<field.name>>, val |-> inner]>>)

\* the loop of serializers.py:48-122 over the fields left
serialize_fields(w, rec, fields, recurse_on, requested_fields, depth) ==
    IF fields = <<>> THEN DictValue(EmptyDict)
    ELSE
        LET n == Len(fields)
            before == serialize_fields(w, rec, SubSeq(fields, 1, n - 1), recurse_on,
                                       requested_fields, depth)
            added == field_entries(w, rec, fields[n], recurse_on, requested_fields,
                                   depth)
            entries == added.list
        IN  IF before.t = "RecursionError" \/ added.t = "RecursionError"
            THEN RecursionError
            ELSE DictValue(
                    [key \in DOMAIN before.items \cup {entries[k].key : k \in 1..Len(entries)}
                        |-> IF \E k \in 1..Len(entries) : entries[k].key = key
                            THEN entries[CHOOSE k \in 1..Len(entries) :
                                            entries[k].key = key].val
                            ELSE before.items[key]])

-----------------------------------------------------------------------------
(* The records and calls serialize_object is applied to.                   *)

\* utils.py:7-17 in a Python 2 process with common.enum installed
Py2Process == [has_enum |-> FALSE, has_common_enum |-> TRUE]

\* a common.enum.Enum class: CLOSED has an empty label
StatusEnum ==
    [kind |-> "common",
     keys |-> [k \in {"ACTIVE", "CLOSED"} |-> IF k = "ACTIVE" THEN 1 ELSE 2],
     labels |-> [k \in {"ACTIVE", "CLOSED"} |-> IF k = "ACTIVE" THEN <<"Active">> ELSE <<>>]]

\* an element of obj._meta.get_fields() or a key of api_additional_fields ("str")
SerField(name, kind, choices, auto_created) ==
    [name |-> name, kind |-> kind, choices |-> choices, auto_created |-> auto_created]

\* a computed field: a key of api_additional_fields, serializers.py:80-90
Additional(name) == SerField(name, "str", NoChoices, FALSE)

\* an author: books is the reverse of Book.author, fans a reverse many-to-many
Author(status, additional, computed) ==
    [process |-> Py2Process,
     fields |-> <<SerField("id", "Field", NoChoices, TRUE),
                  SerField("name", "Field", NoChoices, FALSE),
                  SerField("born", "Field", NoChoices, FALSE),
                  SerField("rating", "Field", NoChoices, FALSE),
                  SerField("status", "Field", StatusEnum, FALSE),
                  SerField("books", "RelatedObject", NoChoices, TRUE),
                  SerField("fans", "RelatedObject", NoChoices, TRUE)>> \o additional,
     attrs |-> (<<"id">> :> IntValue(1)) @@ (<<"name">> :> StrValue(<<"Ann">>))
               @@ (<<"born">> :> DateOnly(<<2020, 1, 1>>))
               @@ (<<"rating">> :> Decimal(150))
               @@ (<<"status">> :> status)
               @@ (<<"books">> :> RelatedManager(<<"b1", "b2">>))
               @@ (<<"fans">> :> ManyRelatedManager(<<"a1">>))
               @@ computed]

\* a book: editor is a reference whose counterpart is absent
Book(id, additional, computed) ==
    [process |-> Py2Process,
     fields |-> <<SerField("id", "Field", NoChoices, TRUE),
                  SerField("title", "Field", NoChoices, FALSE),
                  SerField("author", "ForeignKey", NoChoices, FALSE),
                  SerField("editor", "ForeignKey", NoChoices, FALSE),
                  SerField("coauthors", "ManyToManyField", NoChoices, FALSE)>>
                \o additional,
     attrs |-> (<<"id">> :> IntValue(id)) @@ (<<"title">> :> StrValue(<<"T">>))
               @@ (<<"author">> :> ModelValue("a1"))
               @@ (<<"author", "_id">> :> IntValue(1))
               @@ (<<"editor">> :> RaisesValue)
               @@ (<<"editor", "_id">> :> NoneValue)
               @@ (<<"coauthors">> :> ManyRelatedManager(<<"a1">>))
               @@ computed]

NoAttrs == [k \in {} |-> NoneValue]

\* the table of records: author a1 with the books b1 and b2
World(author, book_additional, book_computed) ==
    [ref \in {"a1", "b1", "b2"} |->
        CASE ref = "a1" -> author
          [] ref = "b1" -> Book(1, book_additional, book_computed)
          [] ref = "b2" -> Book(2, book_additional, book_computed)]

\* no computed fields
PlainWorld == World(Author(IntValue(1), <<>>, NoAttrs), <<>>, NoAttrs)

\* a closed author without status label, and an author without status
StatusWorlds ==
    {World(Author(st, <<>>, NoAttrs), <<>>, NoAttrs) : st \in {IntValue(2), NoneValue}}

\* computed fields that return a record and a list of dates
ComputedWorld ==
    World(Author(IntValue(1), <<Additional("latest"), Additional("dates")>>,
                 (<<"latest">> :> ModelValue("b1"))
                 @@ (<<"dates">> :> ListValue(<<DateOnly(<<2020, 6, 1>>)>>))),
          <<>>, NoAttrs)

\* computed fields that return each other's record
CycleWorld ==
    World(Author(IntValue(1), <<Additional("latest")>>, <<"latest">> :> ModelValue("b1")),
          <<Additional("writer")>>, <<"writer">> :> ModelValue("a1"))

Worlds == {PlainWorld, ComputedWorld, CycleWorld} \cup StatusWorlds

\* a list that holds each element of S once
AsList(S) == CHOOSE p \in Perms(S) : TRUE

\* values of api_recurse_on
RecurseDirectives ==
    {<<"books">>, <<"author">>, <<"books", "author">>, <<"coauthors">>, <<"fans">>}

\* entries of the fields parameter
FieldPaths ==
    {<<"title">>, <<"author">>, <<"author", "name">>, <<"books">>, <<"status">>}

\* values handed to serialize_object that are not records
PlainObjects ==
    {NoneValue, StrValue(<<"x">>), IntValue(7), BoolValue(TRUE), Decimal(150),
     DateValue(<<2020, 1, 1>>), ObjectValue(<<"<Other>">>),
     ListValue(<<DateOnly(<<2020, 1, 1>>)>>)}

\* do_api_call hands over a list of requested fields only if it is not empty,
\* views.py:74-75
SerInputs ==
    {[pc |-> "call", w |-> w, obj |-> obj, recurse_on |-> AsList(r),
      requested_fields |-> f, result |-> NoneValue] :
        w \in Worlds,
        obj \in {ModelValue("a1"), ModelValue("b1")} \cup PlainObjects,
        r \in SUBSET RecurseDirectives,
        f \in {NoRequestedFields}
               \cup {RequestedFields(AsList(p)) : p \in (SUBSET FieldPaths) \ {{}}}}

SerInit ==
    /\ SearchIdle
    /\ norm = NoCall
    /\ bulk = NoCall
    /\ ser \in SerInputs

\* serialize_object(s, recurse_on=recurse_on, requested_fields=requested_fields),
\* views.py:293
Serialize ==
    /\ ser.pc = "call"
    /\ ser' = [ser EXCEPT
                  !.pc = "returned",
                  !.result = serialize_object(ser.w, ser.obj, ser.recurse_on,
                                              ser.requested_fields, RecursionLimit)]
    /\ UNCHANGED <<search_vars, norm, bulk>>

SerNext == Serialize

SerSpec == SerInit /\ [][SerNext]_vars

-----------------------------------------------------------------------------
(* Vocabulary of the properties, stated from the request and the schema.   *)

NineTokens ==
    {"contains", "exact", "gt", "gte", "lt", "lte", "in", "startswith", "range"}

ReservedNames == {<<"offset">>, <<"limit">>, <<"format">>, <<"fields">>, <<"callback">>}

HasKey(arg) == \E j \in 1..Len(request_options) : request_options[j].arg = arg

EntryOf(arg) ==
    request_options[CHOOSE j \in 1..Len(request_options) : request_options[j].arg = arg]

\* a key that is neither reserved, nor a sort, nor the full-text shortcut
IsFilterKey(arg) ==
    /\ arg \notin ReservedNames
    /\ arg \notin {<<"sort">>, <<"order_by">>}
    /\ ~(arg = <<"q">> /\ qs_type = "SearchQuerySet")

EndsInOperator(arg) == Len(arg) >= 2 /\ arg[Len(arg)] \in NineTokens

WithoutLast(arg) == SubSeq(arg, 1, Len(arg) - 1)

RepeatedCalls ==
    {k \in 1..Len(filter_calls) : Len(EntryOf(filter_calls[k].arg).vals) > 1}

OnceCalls ==
    {k \in 1..Len(filter_calls) : Len(EntryOf(filter_calls[k].arg).vals) = 1}

\* the request passed the checks of views.py:225-241
Validated == pc \in {"count", "page", "fetch"} \/ response.status = "OK"

Accepted == response.status = "OK"

Rejected == response.status = "BadRequest"

\* the last value given for a parameter, <<"absent">> when it is not given
Param(key) == IF HasKey(key) THEN Last(EntryOf(key).vals) ELSE <<"absent">>

-----------------------------------------------------------------------------
(* C1: a filter key given more than once.                                  *)

\* C1 as stated: every filter key that occurs more than once yields one predicate
\* with operator "in" on the key's field, an operator suffix of the key being
\* ignored, with one value per occurrence.
C1_RepeatedKeyDropsSuffix ==
    \A k \in RepeatedCalls :
        LET c == filter_calls[k]
        IN  /\ c.op = "in"
            /\ c.field = (IF EndsInOperator(c.arg) THEN WithoutLast(c.arg) ELSE c.arg)
            /\ Len(c.values) = Len(EntryOf(c.arg).vals)

\* C1 as amended: every filter key that occurs more than once yields exactly one
\* predicate with operator "in" whose field is the whole key, any "__" suffix
\* included, and whose values are the normalized values of all occurrences in
\* order; it is never a single-value predicate.
C1_RepeatedKeyIsWholeKeyIn ==
    /\ \A k \in RepeatedCalls :
        LET c == filter_calls[k]
            e == EntryOf(c.arg)
        IN  /\ c.op = "in"
            /\ c.field = c.arg
            /\ Len(c.values) = Len(e.vals)
            /\ Len(c.values) >= 2
            /\ \A n \in 1..Len(e.vals) :
                 c.values[n] =
                    normalize_field_value(e.vals[n], model, get_field(model, c.arg)).val
    /\ \A j \in 1..Len(request_options) :
        (j < idx /\ IsFilterKey(request_options[j].arg)
                 /\ Len(request_options[j].vals) > 1)
        => Cardinality({k \in 1..Len(filter_calls) :
                           filter_calls[k].arg = request_options[j].arg}) = 1

\* C1 witness: a key with an operator suffix, given twice, was translated
C1_Witness ==
    \E k \in RepeatedCalls :
        /\ EndsInOperator(filter_calls[k].arg)
        /\ filter_calls[k].field = filter_calls[k].arg
        /\ idx > 1

-----------------------------------------------------------------------------
(* C2: the number of values a predicate carries.                           *)

\* C2: for a key given once, "range" carries exactly the 2 normalized pieces of
\* its value and any other number of pieces ends the request in BadRequest with no
\* response data; "in" carries one normalized value per piece, at least 1; every
\* other operator carries exactly one value.
C2_ValueCounts ==
    /\ \A k \in OnceCalls :
        LET c == filter_calls[k]
            raw == EntryOf(c.arg).vals[1]
            piece(n) == normalize_field_value(<<raw[n]>>, model,
                                              get_field(model, c.field)).val
        IN  /\ c.op = "range" =>
                 Len(raw) = 2 /\ c.values = <<piece(1), piece(2)>>
            /\ c.op = "in" =>
                 /\ Len(c.values) >= 1
                 /\ Len(c.values) = Len(raw)
                 /\ \A n \in 1..Len(raw) : c.values[n] = piece(n)
            /\ c.op \notin {"in", "range"} => Len(c.values) = 1
    /\ \A j \in 1..Len(request_options) :
        LET e == request_options[j]
        IN  (Len(e.vals) = 1 /\ Len(e.arg) >= 2 /\ Last(e.arg) = "range"
                /\ Len(e.vals[1]) # 2)
            => /\ idx <= j
               /\ \A k \in 1..Len(filter_calls) : filter_calls[k].arg # e.arg
               /\ pc = "done" => Rejected /\ response.objects = <<>>

\* C2 witness: a range predicate with two normalized dates was applied
C2_Witness ==
    \E k \in 1..Len(qs.filters) :
        /\ qs.filters[k].op = "range"
        /\ Len(EntryOf(qs.filters[k].arg).vals) = 1
        /\ Len(qs.filters[k].values) = 2
        /\ qs.filters[k].values[2].t = "datetime"

-----------------------------------------------------------------------------
(* C3 and C5: dependencies between filters on the direct-indexed backend.  *)

MaxOf(S) == CHOOSE k \in S : \A j \in S : j <= k

TuplesWith(m, f) ==
    {k \in 1..Len(m.unique_together) : f \in Range(m.unique_together[k])}

\* the fields to the left of f in tuple t
LeftOf(t, f) == {t[i] : i \in {n \in 1..Len(t) : \E n2 \in (n + 1)..Len(t) : t[n2] = f}}

HasDependencySet(m, f) == f \in DOMAIN m.api_filter_if \/ TuplesWith(m, f) # {}

\* the dependency set in force for f: its entry in the conditional map, else the
\* fields to its left in the last uniqueness tuple that names it
DependencySet(m, f) ==
    IF f \in DOMAIN m.api_filter_if THEN Range(m.api_filter_if[f])
    ELSE LeftOf(m.unique_together[MaxOf(TuplesWith(m, f))], f)

IndexedNames(m) ==
    {<<"id">>} \cup {m.fields[k].name : k \in {j \in 1..Len(m.fields) : m.fields[j].db_index}}

FirstInSomeTuple(m, f) ==
    \E k \in 1..Len(m.unique_together) :
        m.unique_together[k] # <<>> /\ m.unique_together[k][1] = f

\* C5 as stated: on the direct-indexed backend a request whose only filter is on
\* the primary identifier, on an indexed field, or on a field that is first in some
\* uniqueness tuple is never rejected as non-filterable or for a missing co-filter.
C5_IndexedFilterableAlone ==
    (/\ qs_type = "QuerySet"
     /\ pc = "done"
     /\ Len(filter_calls) = 1
     /\ DOMAIN qs_filters = {filter_calls[1].field}
     /\ \/ filter_calls[1].field \in IndexedNames(model)
        \/ FirstInSomeTuple(model, filter_calls[1].field))
    => response.error \notin {"CannotFilter", "MissingCoFilter"}

-----------------------------------------------------------------------------
(* C4: filters and sorts are on filterable fields.                         *)

TupleNames(m) == UNION {Range(m.unique_together[k]) : k \in 1..Len(m.unique_together)}

SearchNames(m) ==
    Range(m.haystack_index)
    \cup {m.haystack_index_extra[k][1] : k \in 1..Len(m.haystack_index_extra)}

FilterableNames ==
    IF qs_type = "QuerySet"
    THEN IndexedNames(model) \cup TupleNames(model) \cup DOMAIN model.api_filter_if
    ELSE SearchNames(model)

SortableNames ==
    IF qs_type = "QuerySet" THEN IndexedNames(model) ELSE SearchNames(model)

\* the field of the last order_by applied to the collection
SortInEffect ==
    LET v == Last(qs.order_by)
    IN  IF v # <<>> /\ v[1] = "-" THEN Tail(v) ELSE v

\* the fields the request filters or sorts on that the backend does not allow
OffendingFields ==
    {f \in DOMAIN qs_filters : f \notin FilterableNames}
    \cup (IF qs.order_by # <<>> /\ SortInEffect \notin SortableNames
          THEN {SortInEffect} ELSE {})

\* C4 as stated, in the runs where the collection raises nothing: a request that
\* filters or sorts on a field outside the filterable (for a sort: indexed) set ends
\* in BadRequest naming that field.
C4_RejectionNamesEachField ==
    (pc = "done" /\ response.error \notin {"FilterRaised", "InvalidSort", "QueryWrong",
                                           "InvalidParameter"})
    => \A f \in OffendingFields : Rejected /\ response.field = f

\* C4 as amended: in an accepted request every filter field is in the filterable
\* set and the field of the sort in effect is in the indexed set; a request that
\* filters or sorts on any other field ends in BadRequest, and when the rejection
\* comes from the filterability check it names one such field.
C4_OnlyFilterableFields ==
    /\ Validated =>
        /\ \A k \in 1..Len(qs.filters) : qs.filters[k].field \in FilterableNames
        /\ DOMAIN qs_filters \subseteq FilterableNames
        /\ qs.order_by # <<>> => SortInEffect \in SortableNames
    /\ (pc = "done" /\ OffendingFields # {}) => Rejected
    /\ response.error = "CannotFilter" =>
        response.field \in DOMAIN qs_filters /\ response.field \notin FilterableNames
    /\ response.error = "CannotSort" =>
        /\ qs.order_by # <<>>
        /\ response.field = SortInEffect
        /\ response.field \notin SortableNames

\* C4 witness: a request with a filter and a sort was accepted
C4_Witness ==
    /\ Accepted
    /\ Len(qs.filters) >= 1
    /\ qs.order_by # <<>>
    /\ SortInEffect \in SortableNames

-----------------------------------------------------------------------------
(* C6, C7 and C8: offset and limit.                                        *)

Text10000 == <<"1", "0", "0", "0", "0">>
Text10001 == <<"1", "0", "0", "0", "1">>
Text9999 == <<"9", "9", "9", "9">>
Text6000 == <<"6", "0", "0", "0">>
Text6001 == <<"6", "0", "0", "1">>

\* C6 as stated: on the direct-indexed backend a request with offset=10000 is
\* rejected with BadRequest.
C6_Offset10000Rejected ==
    (qs_type = "QuerySet" /\ pc = "done" /\ Param(<<"offset">>) = Text10000)
    => Rejected

\* C6 as amended: on the direct-indexed backend the offset check rejects exactly
\* the offsets above 10000: offset=10001 ends in BadRequest, and a request with
\* offset=10000 or offset=9999 is never rejected for its offset.
C6_OffsetBoundary ==
    qs_type = "QuerySet" =>
        /\ (pc = "done" /\ Param(<<"offset">>) = Text10001) => Rejected
        /\ response.error = "OffsetTooHigh" => Param(<<"offset">>) = Text10001
        /\ Accepted =>
             Param(<<"offset">>) \in {<<"absent">>, <<"0">>, Text9999, Text10000}

\* C6 witness: offset=10000 was accepted on the direct-indexed backend
C6_Witness ==
    /\ qs_type = "QuerySet"
    /\ Accepted
    /\ Param(<<"offset">>) = Text10000
    /\ response.meta.offset = 10000

LimitNumber(text) ==
    CASE text = <<"absent">> -> 100
      [] text = <<"5">> -> 5
      [] text = Text6000 -> 6000
      [] OTHER -> -1

OffsetNumber(text) ==
    CASE text = <<"absent">> -> 0
      [] text = <<"0">> -> 0
      [] text = Text9999 -> 9999
      [] text = Text10000 -> 10000
      [] text = Text10001 -> 10001
      [] OTHER -> -1

\* C7: on either backend a request with limit above 6000 ends in BadRequest and
\* limit=6000 is not rejected for its limit; an absent limit is 100, an absent
\* offset is 0, and the meta of an accepted response reports the offset and limit
\* the slice was taken with.
C7_LimitAndDefaults ==
    /\ (pc = "done" /\ Param(<<"limit">>) = Text6001) => Rejected
    /\ response.error = "LimitTooHigh" => Param(<<"limit">>) = Text6001
    /\ Accepted =>
        /\ response.meta.limit = LimitNumber(Param(<<"limit">>))
        /\ response.meta.offset = OffsetNumber(Param(<<"offset">>))
        /\ response.meta.limit >= 0 /\ response.meta.offset >= 0
        /\ qs.slice = <<response.meta.offset, response.meta.offset + response.meta.limit>>

\* C7 witness: limit=6000 was accepted with the default offset
C7_Witness ==
    /\ Accepted
    /\ Param(<<"limit">>) = Text6000
    /\ ~HasKey(<<"offset">>)
    /\ response.meta = [offset |-> 0, limit |-> 6000, total_count |-> count]

ValidationErrors ==
    {"MultipleSort", "InvalidSort", "MultipleQ", "InvalidValue", "FilterRaised",
     "RangeArity", "InArity",
     "CannotSort", "CannotFilter", "MissingCoFilter", "InvalidOffsetOrLimit",
     "LimitTooHigh", "OffsetTooHigh"}

\* C8 as stated: a request that ends in BadRequest for a malformed filter, a
\* non-filterable filter or sort field, a missing co-filter or a bad offset or
\* limit has made no call into the data store.
C8_NoStoreAccessBeforeRejection ==
    (Rejected /\ response.error \in ValidationErrors) => store_calls = <<>>

-----------------------------------------------------------------------------
(* C9 and C10: the predicates applied to the collection.                   *)

\* C9 as stated: in the predicates applied for an accepted request no two name
\* the same field.
C9_FieldAtMostOnce ==
    Accepted =>
        \A j, k \in 1..Len(qs.filters) :
            j # k => qs.filters[j].field # qs.filters[k].field

\* C9 as amended: every filter key of the request contributes exactly one applied
\* predicate, so a field filtered through several distinct keys carries one
\* applied predicate per key; only the record the validation reads, qs_filters,
\* holds each field once.
C9_OnePredicatePerKey ==
    /\ \A j, k \in 1..Len(qs.filters) : j # k => qs.filters[j].arg # qs.filters[k].arg
    /\ {qs.filters[k].field : k \in 1..Len(qs.filters)} = DOMAIN qs_filters
    /\ Validated =>
        Len(qs.filters) =
            Cardinality({j \in 1..Len(request_options) :
                            IsFilterKey(request_options[j].arg)})

\* C9 witness: an accepted request with two applied predicates on one field
C9_Witness ==
    /\ Accepted
    /\ \E j, k \in 1..Len(qs.filters) :
        j # k /\ qs.filters[j].field = qs.filters[k].field

\* C10: a filter key given once is split on its last "__": an operator token after
\* it is the operator and the part before it the field; otherwise the whole key is
\* the field and the operator is "exact".  A reserved name yields no predicate.
C10_KeySplit ==
    /\ \A k \in OnceCalls :
        LET c == filter_calls[k]
        IN  IF EndsInOperator(c.arg)
            THEN c.field = WithoutLast(c.arg) /\ c.op = c.arg[Len(c.arg)]
            ELSE c.field = c.arg /\ c.op = "exact"
    /\ \A k \in 1..Len(filter_calls) : filter_calls[k].arg \notin ReservedNames
    /\ Len(filter_calls) <=
         Cardinality({j \in 1..Len(request_options) :
                         j <= idx /\ IsFilterKey(request_options[j].arg)})

\* C10 witness: "city__name__lt" was translated into field "city__name" with "lt"
C10_Witness ==
    \E k \in OnceCalls :
        /\ filter_calls[k].arg = <<"city", "name", "lt">>
        /\ filter_calls[k].field = <<"city", "name">>
        /\ filter_calls[k].op = "lt"

-----------------------------------------------------------------------------
(* C11, C12 and C16: normalize_field_value.                                *)

Normalized == norm.pc \in {"returned", "again"}

\* the descriptor's choices are recognised as an enum and no earlier rule applies
EnumField ==
    /\ norm.modelfield.present
    /\ norm.modelfield.type # "BooleanField"
    /\ norm.modelfield.choices.kind \in {"common", "pyenum"}
    /\ is_enum(norm.model, norm.modelfield.choices)

IsEnumKey == Len(norm.v) = 1 /\ norm.v[1] \in DOMAIN norm.modelfield.choices.keys

\* C11 as stated: for a field whose choices are recognised as an enum, of either
\* kind, a raw value that is a key normalizes to the key's internal value and any
\* other raw value fails with an invalid-value error; the result is never null or
\* the raw string.
C11_EnumKeyToValue ==
    (Normalized /\ EnumField) =>
        IF IsEnumKey
        THEN norm.result = Return(IntValue(norm.modelfield.choices.keys[norm.v[1]]))
        ELSE ~norm.result.ok /\ norm.result.err = "ValueError"

\* C12 as stated: with an absent descriptor every raw string, "null" included, is
\* returned unchanged; with a present descriptor the raw string "null" fails on a
\* non-nullable field and yields null on a nullable one.
C12_AbsentDescriptorPassesThrough ==
    Normalized =>
        IF ~norm.modelfield.present
        THEN norm.result = Return(StrValue(norm.v))
        ELSE norm.v = <<"null">> =>
                IF norm.modelfield.null
                THEN norm.result = Return(NoneValue)
                ELSE ~norm.result.ok /\ norm.result.err = "ValueError"

\* the raw string is "null" in some letter case
NullInAnyCase == norm.v \in {<<"null">>, <<"NULL">>, <<"Null">>}

\* C12 as amended: with an absent descriptor a raw string that is "null" in any
\* letter case yields null and every other raw string, "true" and "false"
\* included, is returned unchanged; with a present descriptor a raw string that
\* is "null" in any letter case fails on a non-nullable field and yields null on
\* a nullable one.
C12_NullRule ==
    Normalized =>
        IF ~norm.modelfield.present
        THEN IF NullInAnyCase
             THEN norm.result = Return(NoneValue)
             ELSE norm.result = Return(StrValue(norm.v))
        ELSE NullInAnyCase =>
                IF norm.modelfield.null
                THEN norm.result = Return(NoneValue)
                ELSE ~norm.result.ok /\ norm.result.err = "ValueError"

\* C12 witness: "NULL" was normalized to null with an absent descriptor
C12_Witness ==
    /\ Normalized
    /\ ~norm.modelfield.present
    /\ norm.v = <<"NULL">>
    /\ norm.result = Return(NoneValue)

\* C16 as stated: a value that normalized successfully normalizes again, against
\* the same descriptor, to the same value.
C16_NormalizeTwiceIsNoOp ==
    norm.pc = "again" => norm.again.ok /\ norm.again = norm.result

\* C16 as amended: a raw value that normalizes to a string normalizes to the raw
\* string itself, and normalizing that again returns the same string; a value that
\* normalized to null, a bool, an enum value or a date-time is not a string and
\* normalizing it again fails, with an error that is not the invalid-value error.
C16_IdempotentOnStrings ==
    /\ (Normalized /\ norm.result.ok /\ norm.result.val.t = "str")
         => norm.result.val = StrValue(norm.v)
    /\ norm.pc = "again" =>
         IF norm.result.val.t = "str"
         THEN norm.again = norm.result
         ELSE ~norm.again.ok /\ norm.again.err = "AttributeError"

\* C16 witness: a string normalized twice, against a present descriptor, to itself
C16_Witness ==
    /\ norm.pc = "again"
    /\ norm.modelfield.present
    /\ norm.result.val.t = "str"
    /\ norm.again = norm.result
    /\ norm.again.val = StrValue(norm.v)

-----------------------------------------------------------------------------
(* C15: the order of the records of a search.                              *)

\* the identifier of the search entry at position k
HitId(k) == DigitValue(bulk.hits[k])

\* C15: on the search backend the records returned are the stored records whose
\* identifier is among the search entries, each once, and they stand in the
\* relative order of the entries: the records are a subsequence of the entries'
\* identifiers, also when an identifier is repeated or names no stored record.
C15_SearchOrderKept ==
    (bulk.pc = "done" /\ bulk.qs_type = "SearchQuerySet") =>
        /\ \A j, k \in 1..Len(bulk.objs) : j # k => bulk.objs[j] # bulk.objs[k]
        /\ Range(bulk.objs) = bulk.stored \cap {HitId(k) : k \in 1..Len(bulk.hits)}
        /\ \E at \in [1..Len(bulk.objs) -> 1..Len(bulk.hits)] :
             /\ \A j \in 1..Len(bulk.objs) : HitId(at[j]) = bulk.objs[j]
             /\ \A j, k \in 1..Len(bulk.objs) : j < k => at[j] < at[k]

\* C15 witness: a result with a repeated identifier and an identifier without a
\* record, fetched out of order, gave two records
C15_Witness ==
    /\ bulk.pc = "done"
    /\ bulk.qs_type = "SearchQuerySet"
    /\ \E j, k \in 1..Len(bulk.hits) : j # k /\ bulk.hits[j] = bulk.hits[k]
    /\ \E k \in 1..Len(bulk.hits) : HitId(k) \notin bulk.stored
    /\ Len(bulk.objs) = 2
    /\ bulk.fetched # bulk.objs

-----------------------------------------------------------------------------
(* C13, C14, C17 and C18: serialize_object.                                *)

\* a record was serialized into a map
RecordSerialized ==
    ser.pc = "returned" /\ ser.obj.t = "Model" /\ ser.result.t = "dict"

SerRecord == ser.w[ser.obj.ref]

Directives == {ser.recurse_on[k] : k \in 1..Len(ser.recurse_on)}

Projection == {ser.requested_fields.list[k] : k \in 1..Len(ser.requested_fields.list)}

\* the field passes the projection, if one is active
Projected(name) ==
    ser.requested_fields.given => \E p \in Projection : p[1] = name

FieldsOfKind(kinds) ==
    {SerRecord.fields[k].name :
        k \in {j \in 1..Len(SerRecord.fields) : SerRecord.fields[j].kind \in kinds}}

\* C13: a single-valued reference field not named in the recursion directives is
\* emitted as the referenced identifier, never as a nested map, and a reverse or
\* multi-valued reference field not named in them is absent from the output; with
\* no directives the output holds no reverse-reference key and no nested map for
\* a reference field.
C13_NoHiddenExpansion ==
    RecordSerialized =>
        /\ \A name \in FieldsOfKind({"ForeignKey"}) :
             (<<name>> \notin Directives /\ Projected(name)) =>
                /\ <<name>> \in DOMAIN ser.result.items
                /\ ser.result.items[<<name>>] = SerRecord.attrs[<<name, "_id">>]
                /\ ser.result.items[<<name>>].t \in {"int", "None"}
        /\ \A name \in FieldsOfKind({"RelatedObject", "ManyToManyField"}) :
             <<name>> \notin Directives => <<name>> \notin DOMAIN ser.result.items
        /\ Directives = {} =>
             \A name \in FieldsOfKind({"ForeignKey", "RelatedObject", "ManyToManyField"}) :
                 <<name>> \in DOMAIN ser.result.items
                 => ser.result.items[<<name>>].t \notin {"dict", "list"}

\* C13 witness: a book serialized with its multi-valued reference expanded and its
\* single-valued reference not: the author is emitted as an identifier
C13_Witness ==
    /\ RecordSerialized
    /\ ser.obj.ref = "b1"
    /\ Directives = {<<"coauthors">>}
    /\ ~ser.requested_fields.given
    /\ ser.result.items[<<"author">>] = IntValue(1)
    /\ ser.result.items[<<"coauthors">>].t = "list"

RECURSIVE IsPrimitiveTree(_)
\* null, a bool, a number, a string, a sequence of primitive trees or a map of them
IsPrimitiveTree(v) ==
    CASE v.t \in {"None", "bool", "int", "float", "str"} -> TRUE
      [] v.t = "list" -> \A k \in 1..Len(v.items) : IsPrimitiveTree(v.items[k])
      [] v.t = "dict" -> \A key \in DOMAIN v.items : IsPrimitiveTree(v.items[key])
      [] OTHER -> FALSE

\* C14 as stated: whatever value is serialized, sequences and maps holding dates,
\* decimals or records included, every node of the output is null, a bool, a
\* number, a string, a sequence or a map of such nodes.
C14_OutputIsPrimitiveTree ==
    (ser.pc = "returned" /\ ser.result.t # "RecursionError")
    => IsPrimitiveTree(ser.result)

\* the items of a nested record or list of records, as a set of maps
NestedMaps(v) ==
    IF v.t = "list" THEN {v.items[k] : k \in 1..Len(v.items)} ELSE {v}

\* the entries of the projection below name
SubProjection(name) == {Tail(p) : p \in {q \in Projection : Len(q) >= 2 /\ q[1] = name}}

\* C17 as stated: under a projection the output holds only fields that are the
\* first segment of an entry; a nested record holds only the fields its
\* sub-projection names, and when the projection names a recursed reference field
\* by its bare name only, the nested records are not empty maps.
C17_ProjectionOfNestedRecords ==
    (RecordSerialized /\ ser.requested_fields.given) =>
        /\ \A key \in DOMAIN ser.result.items : \E p \in Projection : p[1] = key[1]
        /\ \A name \in FieldsOfKind({"ForeignKey", "RelatedObject", "ManyToManyField"}) :
             (<<name>> \in Directives /\ <<name>> \in DOMAIN ser.result.items) =>
                \A nested \in NestedMaps(ser.result.items[<<name>>]) :
                    nested.t = "dict" =>
                        IF SubProjection(name) = {}
                        THEN DOMAIN nested.items # {}
                        ELSE \A key \in DOMAIN nested.items :
                                \E p \in SubProjection(name) : p[1] = key[1]

RECURSIVE MapDepth(_)
\* the nesting depth of maps in an output
MapDepth(v) ==
    CASE v.t = "dict" ->
            1 + (IF DOMAIN v.items = {} THEN 0
                 ELSE MaxOf({MapDepth(v.items[key]) : key \in DOMAIN v.items}))
      [] v.t = "list" ->
            IF v.items = <<>> THEN 0
            ELSE MaxOf({MapDepth(v.items[k]) : k \in 1..Len(v.items)})
      [] OTHER -> 0

\* the largest number of segments of a directive
MaxSegments == IF Directives = {} THEN 0 ELSE MaxOf({Len(d) : d \in Directives})

\* C18 as stated: serializing terminates for every record graph, cyclic ones and
\* ones whose computed fields return records included, and the maps of the output
\* nest at most 1 plus the largest number of segments of a directive deep.
C18_TerminatesWithBoundedDepth ==
    ser.pc = "returned" =>
        /\ ser.result.t # "RecursionError"
        /\ MapDepth(ser.result) <= 1 + MaxSegments

\* the records of the graph have no computed field that returns a record
NoComputedRecords ==
    \A ref \in DOMAIN ser.w :
        \A k \in 1..Len(ser.w[ref].fields) :
            ser.w[ref].fields[k].kind = "str"
            => ser.w[ref].attrs[<<ser.w[ref].fields[k].name>>].t # "Model"

\* the depth bound where no computed field returns a record
BoundedWithoutComputedRecords ==
    (ser.pc = "returned" /\ NoComputedRecords) =>
        /\ ser.result.t # "RecursionError"
        /\ MapDepth(ser.result) <= 1 + MaxSegments

=============================================================================
